---- MODULE Spec2Model ----
(***************************************************************************)
(* Model of the font previewer (src/main.py): the style filter of          *)
(* FontLoader and the render pass of FontPreviewWidget.                    *)
(* Strings are sequences of one-character strings, so that lower(),        *)
(* substring tests, split() and strip() are computed, not assumed.         *)
(***************************************************************************)
EXTENDS Integers, Sequences, FiniteSets, TLC

VARIABLES
    styles,         \* FontLoader: the style names font_db.styles(family) returned
    useful_styles,  \* FontLoader.run: the list _filter_useable_styles returned
    filtered,       \* FontLoader.run: has _filter_useable_styles returned?
    text,           \* FontPreviewWidget.text
    font_family,    \* FontPreviewWidget.font_family
    font_style,     \* FontPreviewWidget.font_style
    font_size,      \* FontPreviewWidget.font_size
    font_color,     \* FontPreviewWidget.font_color
    font_weight,    \* FontPreviewWidget.font_weight
    rectW,          \* FontPreviewWidget.rect().width()
    rectH,          \* FontPreviewWidget.rect().height()
    nlAdvance,      \* advance the font reports for a newline character
    lines,          \* _update_cache: the local list `lines` of the last pass
    cache_pixmap,   \* FontPreviewWidget.cache_pixmap (None or the draw calls made)
    cache_request,  \* history: the field values the cached pixmap was rendered from
    shown_request,  \* history: the field values the pixmap last painted was rendered from
    paints,         \* history: paintEvents since the fields or the size last changed
    renders,        \* history: _update_cache runs since the fields or the size last changed
    fonts,          \* MainWindow.fonts (names "family - style")
    filtered_fonts, \* MainWindow.filtered_fonts, the rows of font_list
    current_row,    \* font_list: row of the current item, from 1 (0: no current item)
    selected_rows,  \* font_list: the rows that are selected
    selected_fonts, \* MainWindow.selected_fonts
    preview_mode,   \* MainWindow.preview_mode
    preview_text,   \* preview_text.toPlainText()
    size_slider,    \* size_slider.value()
    weight_slider,  \* weight_slider.value()
    current_color,  \* MainWindow.current_color
    timer_left,     \* update_timer: ticks until the timeout (-1: not active)
    preview_count,  \* number of widgets in preview_layout (the widget above is the first)
    since_change,   \* history: ticks since the last call of _debounced_update_previews
    burst,          \* history: calls of _debounced_update_previews while the timer ran, the one that started it included
    families,       \* FontLoader.run: the style lists of font_db.families(), in order
    completed,      \* FontLoader.run: completed
    loader_fonts,   \* FontLoader.fonts (names)
    events,         \* history: the signals FontLoader has emitted, in order
    run_done        \* FontLoader.run has returned

vars == <<styles, useful_styles, filtered, text, font_family, font_style, font_size,
          font_color, font_weight, rectW, rectH, nlAdvance, lines, cache_pixmap,
          cache_request, shown_request, paints, renders,
          fonts, filtered_fonts, current_row, selected_rows, selected_fonts,
          preview_mode, preview_text, size_slider, weight_slider, current_color,
          timer_left, preview_count, since_change, burst,
          families, completed, loader_fonts, events, run_done>>

runVars == <<families, completed, loader_fonts, events, run_done>>
loaderVars == <<styles, useful_styles, filtered, runVars>>
widgetVars == <<text, font_family, font_style, font_size, font_color, font_weight,
                rectW, rectH, nlAdvance, lines, cache_pixmap,
                cache_request, shown_request, paints, renders>>
windowVars == <<fonts, filtered_fonts, current_row, selected_rows, selected_fonts,
                preview_mode, preview_text, size_slider, weight_slider, current_color,
                timer_left, preview_count, since_change, burst>>

\* cache_pixmap = None
None == [null |-> TRUE, ops |-> <<>>]

(***************************************************************************)
(* Bounds of the model                                                     *)
(***************************************************************************)
MaxStyles == 5
MaxTextLen == 6
MaxPaints == 2
MaxBurst == 2
MaxFamilies == 3

(***************************************************************************)
(* String helpers (Python str semantics on character sequences)            *)
(***************************************************************************)
\* str.lower() on one character, for the capitals that occur in the model
LowerChar(c) ==
    CASE c = "R" -> "r" [] c = "B" -> "b" [] c = "I" -> "i"
      [] c = "N" -> "n" [] c = "T" -> "t" [] c = "L" -> "l"
      [] c = "M" -> "m" [] c = "H" -> "h"
      [] OTHER -> c

Lower(s) == [i \in 1..Len(s) |-> LowerChar(s[i])]

\* Python `sub in s`
Contains(sub, s) ==
    \E k \in 0..(Len(s) - Len(sub)) : SubSeq(s, k + 1, k + Len(sub)) = sub

\* s[:n]
Take(s, n) == SubSeq(s, 1, IF n < Len(s) THEN n ELSE Len(s))

sRegular == <<"r","e","g","u","l","a","r">>
sBold == <<"b","o","l","d">>
sItalic == <<"i","t","a","l","i","c">>
sNormal == <<"n","o","r","m","a","l">>
sBook == <<"b","o","o","k">>

(***************************************************************************)
(* Style names a font database may report for a family                     *)
(***************************************************************************)
Regular == <<"R","e","g","u","l","a","r">>
ThinRegular == <<"T","h","i","n"," ","R","e","g","u","l","a","r">>
Bold == <<"B","o","l","d">>
Italic == <<"I","t","a","l","i","c">>
BoldItalic == <<"B","o","l","d"," ","I","t","a","l","i","c">>
Black == <<"B","l","a","c","k">>
Normal == <<"N","o","r","m","a","l">>
Book == <<"B","o","o","k">>
Light == <<"L","i","g","h","t">>
Medium == <<"M","e","d","i","u","m">>
Thin == <<"T","h","i","n">>
Heavy == <<"H","e","a","v","y">>

StyleNames == {Regular, ThinRegular, Bold, Italic, BoldItalic, Normal, Book,
               Black, Light, Medium, Thin, Heavy}

\* QFontDatabase.styles(family): lists of n distinct style names
DistinctSeqs(S, n) ==
    {f \in [1..n -> S] : \A i, j \in 1..n : i # j => f[i] # f[j]}

(***************************************************************************)
(* FontLoader._filter_useable_styles                                       *)
(***************************************************************************)
\* the locals before the loop
FilterStart ==
    [useful |-> <<>>, regular_found |-> FALSE, bold_found |-> FALSE,
     italic_found |-> FALSE, bold_italic_found |-> FALSE]

\* variant of the loop body that tests 'bold' before 'bold' and 'italic'
FilterStep_BoldFirst(acc, style) ==
    LET lower_style == Lower(style) IN
    IF Contains(sRegular, lower_style)
       \/ (~acc.regular_found /\ lower_style \in {sNormal, sBook})
    THEN [acc EXCEPT !.useful = Append(@, style), !.regular_found = TRUE]
    ELSE IF Contains(sBold, lower_style)
    THEN IF ~acc.bold_found
         THEN [acc EXCEPT !.useful = Append(@, style), !.bold_found = TRUE]
         ELSE acc
    ELSE IF Contains(sItalic, lower_style)
    THEN IF ~acc.italic_found
         THEN [acc EXCEPT !.useful = Append(@, style), !.italic_found = TRUE]
         ELSE acc
    ELSE IF Len(acc.useful) < 4
    THEN [acc EXCEPT !.useful = Append(@, style)]
    ELSE acc

\* variant of the loop body that admits unclassified names only below 3 entries
FilterStep_Cap3(acc, style) ==
    LET lower_style == Lower(style) IN
    IF Contains(sRegular, lower_style)
       \/ (~acc.regular_found /\ lower_style \in {sNormal, sBook})
    THEN [acc EXCEPT !.useful = Append(@, style), !.regular_found = TRUE]
    ELSE IF Contains(sBold, lower_style) /\ Contains(sItalic, lower_style)
    THEN IF ~acc.bold_italic_found
         THEN [acc EXCEPT !.useful = Append(@, style), !.bold_italic_found = TRUE]
         ELSE acc
    ELSE IF Contains(sBold, lower_style)
    THEN IF ~acc.bold_found
         THEN [acc EXCEPT !.useful = Append(@, style), !.bold_found = TRUE]
         ELSE acc
    ELSE IF Contains(sItalic, lower_style)
    THEN IF ~acc.italic_found
         THEN [acc EXCEPT !.useful = Append(@, style), !.italic_found = TRUE]
         ELSE acc
    ELSE IF Len(acc.useful) < 3
    THEN [acc EXCEPT !.useful = Append(@, style)]
    ELSE acc

\* one iteration of `for style in styles`
FilterStep(acc, style) ==
    LET lower_style == Lower(style) IN
    IF Contains(sRegular, lower_style)
       \/ (~acc.regular_found /\ lower_style \in {sNormal, sBook})
    THEN [acc EXCEPT !.useful = Append(@, style), !.regular_found = TRUE]
    ELSE IF Contains(sBold, lower_style) /\ Contains(sItalic, lower_style)
    THEN IF ~acc.bold_italic_found
         THEN [acc EXCEPT !.useful = Append(@, style), !.bold_italic_found = TRUE]
         ELSE acc
    ELSE IF Contains(sBold, lower_style)
    THEN IF ~acc.bold_found
         THEN [acc EXCEPT !.useful = Append(@, style), !.bold_found = TRUE]
         ELSE acc
    ELSE IF Contains(sItalic, lower_style)
    THEN IF ~acc.italic_found
         THEN [acc EXCEPT !.useful = Append(@, style), !.italic_found = TRUE]
         ELSE acc
    ELSE IF Len(acc.useful) < 4
    THEN [acc EXCEPT !.useful = Append(@, style)]
    ELSE acc

RECURSIVE FilterLoop(_, _, _)
FilterLoop(st, i, acc) ==
    IF i > Len(st) THEN acc
    ELSE FilterLoop(st, i + 1, FilterStep(acc, st[i]))

\* variant that returns useful_styles without the final slice
FilterUseableStyles_NoSlice(st) == FilterLoop(st, 1, FilterStart).useful

\* return useful_styles[:4]
FilterUseableStyles(st) == Take(FilterLoop(st, 1, FilterStart).useful, 4)

\* the call in FontLoader.run for one family
filter_useable_styles ==
    /\ ~filtered
    /\ useful_styles' = FilterUseableStyles(styles)
    /\ filtered' = TRUE
    /\ UNCHANGED <<styles, runVars, widgetVars, windowVars>>

(***************************************************************************)
(* Classification of the input names, as the if/elif chain decides it      *)
(***************************************************************************)
RECURSIVE RegularBranch(_, _)
RegularBranch(st, i) ==
    \/ Contains(sRegular, Lower(st[i]))
    \/ /\ Lower(st[i]) \in {sNormal, sBook}
       /\ ~\E j \in 1..(i - 1) : RegularBranch(st, j)

Bucket(st, i) ==
    IF RegularBranch(st, i) THEN "Regular"
    ELSE IF Contains(sBold, Lower(st[i])) /\ Contains(sItalic, Lower(st[i])) THEN "BoldItalic"
    ELSE IF Contains(sBold, Lower(st[i])) THEN "Bold"
    ELSE IF Contains(sItalic, Lower(st[i])) THEN "Italic"
    ELSE "Overflow"

NamedBuckets == {"Regular", "BoldItalic", "Bold", "Italic"}

InSeq(x, s) == \E k \in 1..Len(s) : s[k] = x

(***************************************************************************)
(* Python str operations used by FontPreviewWidget._update_cache           *)
(***************************************************************************)
\* str.isspace() on the characters of the model
IsSpace(c) == c \in {" ", "\n"}

\* text.replace('\n', ' \n ')
RECURSIVE ReplaceNewline(_)
ReplaceNewline(s) ==
    IF s = <<>> THEN <<>>
    ELSE (IF Head(s) = "\n" THEN <<" ", "\n", " ">> ELSE <<Head(s)>>)
         \o ReplaceNewline(Tail(s))

\* str.split(): cut at runs of whitespace, no empty pieces
RECURSIVE SplitLoop(_, _, _)
SplitLoop(s, cur, out) ==
    IF s = <<>> THEN (IF cur = <<>> THEN out ELSE Append(out, cur))
    ELSE IF IsSpace(Head(s))
         THEN SplitLoop(Tail(s), <<>>, IF cur = <<>> THEN out ELSE Append(out, cur))
         ELSE SplitLoop(Tail(s), Append(cur, Head(s)), out)

Split(s) == SplitLoop(s, <<>>, <<>>)

\* variant of str.split('\n') that leaves out empty segments
SplitNewline_NoEmpty(s) == 
    LET RECURSIVE Loop(_, _, _)
        Loop(r, cur, out) ==
            IF r = <<>> THEN (IF cur = <<>> THEN out ELSE Append(out, cur))
            ELSE IF Head(r) = "\n"
                 THEN Loop(Tail(r), <<>>, IF cur = <<>> THEN out ELSE Append(out, cur))
                 ELSE Loop(Tail(r), Append(cur, Head(r)), out)
    IN Loop(s, <<>>, <<>>)

\* str.split('\n'): cut at every newline, empty segments kept
SplitNewline(s) == 
    LET RECURSIVE Loop(_, _, _)
        Loop(r, cur, out) ==
            IF r = <<>> THEN Append(out, cur)
            ELSE IF Head(r) = "\n"
                 THEN Loop(Tail(r), <<>>, Append(out, cur))
                 ELSE Loop(Tail(r), Append(cur, Head(r)), out)
    IN Loop(s, <<>>, <<>>)

\* str.strip()
RECURSIVE LStrip(_)
LStrip(s) == IF s # <<>> /\ IsSpace(Head(s)) THEN LStrip(Tail(s)) ELSE s

RECURSIVE RStrip(_)
RStrip(s) ==
    IF s # <<>> /\ IsSpace(s[Len(s)]) THEN RStrip(SubSeq(s, 1, Len(s) - 1)) ELSE s

Strip(s) == RStrip(LStrip(s))

(***************************************************************************)
(* QFontMetrics of a font of a given point size                            *)
(***************************************************************************)
\* advance of one character
CharAdvance(c, size) ==
    CASE c = "a" -> size \div 2
      [] c = "b" -> size
      [] c = "\n" -> nlAdvance
      [] OTHER -> size \div 4

\* QFontMetrics.horizontalAdvance
RECURSIVE HorizontalAdvance(_, _)
HorizontalAdvance(s, size) ==
    IF s = <<>> THEN 0
    ELSE CharAdvance(Head(s), size) + HorizontalAdvance(Tail(s), size)

\* QFontMetrics.lineSpacing
LineSpacing(size) == size + size \div 4

\* QFontMetrics.ascent
Ascent(size) == size - size \div 6

Max(a, b) == IF a > b THEN a ELSE b

(***************************************************************************)
(* Inputs of the render pass                                               *)
(***************************************************************************)
TextChars == {"a", "b", " ", "\n"}

Texts == UNION {[1..n -> TextChars] : n \in 0..MaxTextLen}

FontFamilies == {<<"a">>, <<"b", "b", "b">>}
FontStyleNames == {<<"a">>}
RectWidths == {50, 80, 200}
RectHeights == {60, 100}
NlAdvances == {0, 6}
DefaultText == <<"a", "b", " ", "a">>
FontSizes == {12, 24}
FontColors == {"black", "red"}
FontWeights == {400, 500}
WidgetTexts == {DefaultText, <<"a", "\n", "a">>}

(***************************************************************************)
(* FontPreviewWidget._update_cache: line breaking                          *)
(***************************************************************************)
\* variant of the loop body that starts the new line empty after a flush
WrapStep_DropWord(acc, word, width) ==
    IF word = <<"\n">>
    THEN [lines |-> Append(IF Strip(acc.current_line) # <<>>
                           THEN Append(acc.lines, Strip(acc.current_line))
                           ELSE acc.lines, <<>>),
          current_line |-> <<>>]
    ELSE LET test_line == acc.current_line
                          \o (IF acc.current_line # <<>> THEN <<" ">> ELSE <<>>) \o word
         IN IF HorizontalAdvance(test_line, font_size) > width
            THEN LET flushed == IF acc.current_line # <<>>
                                THEN Append(acc.lines, acc.current_line)
                                ELSE acc.lines
                 IN IF HorizontalAdvance(word, font_size) > width
                    THEN [lines |-> Append(flushed, word), current_line |-> <<>>]
                    ELSE [lines |-> flushed, current_line |-> <<>>]
            ELSE [lines |-> acc.lines, current_line |-> test_line]

\* variant of the loop body that measures the line before the word is added
WrapStep_TestCurrent(acc, word, width) ==
    IF word = <<"\n">>
    THEN [lines |-> Append(IF Strip(acc.current_line) # <<>>
                           THEN Append(acc.lines, Strip(acc.current_line))
                           ELSE acc.lines, <<>>),
          current_line |-> <<>>]
    ELSE LET test_line == acc.current_line
                          \o (IF acc.current_line # <<>> THEN <<" ">> ELSE <<>>) \o word
         IN IF HorizontalAdvance(acc.current_line, font_size) > width
            THEN LET flushed == IF acc.current_line # <<>>
                                THEN Append(acc.lines, acc.current_line)
                                ELSE acc.lines
                 IN IF HorizontalAdvance(word, font_size) > width
                    THEN [lines |-> Append(flushed, word), current_line |-> <<>>]
                    ELSE [lines |-> flushed, current_line |-> word]
            ELSE [lines |-> acc.lines, current_line |-> test_line]

\* one iteration of `for word in words`
WrapStep(acc, word, width) ==
    IF word = <<"\n">>
    THEN [lines |-> Append(IF Strip(acc.current_line) # <<>>
                           THEN Append(acc.lines, Strip(acc.current_line))
                           ELSE acc.lines, <<>>),
          current_line |-> <<>>]
    ELSE LET test_line == acc.current_line
                          \o (IF acc.current_line # <<>> THEN <<" ">> ELSE <<>>) \o word
         IN IF HorizontalAdvance(test_line, font_size) > width
            THEN LET flushed == IF acc.current_line # <<>>
                                THEN Append(acc.lines, acc.current_line)
                                ELSE acc.lines
                 IN IF HorizontalAdvance(word, font_size) > width
                    THEN [lines |-> Append(flushed, word), current_line |-> <<>>]
                    ELSE [lines |-> flushed, current_line |-> word]
            ELSE [lines |-> acc.lines, current_line |-> test_line]

RECURSIVE WrapLoop(_, _, _, _)
WrapLoop(words, i, acc, width) ==
    IF i > Len(words) THEN acc
    ELSE WrapLoop(words, i + 1, WrapStep(acc, words[i], width), width)

\* the branch taken when the whole text is wider than the available width
WordWrap(t, width) ==
    LET words == Split(ReplaceNewline(t))
        acc == WrapLoop(words, 1, [lines |-> <<>>, current_line |-> <<>>], width)
    IN IF Strip(acc.current_line) # <<>>
       THEN Append(acc.lines, Strip(acc.current_line))
       ELSE acc.lines

\* does the render pass take the word-wrap branch?
WrapPath(t, width) == HorizontalAdvance(t, font_size) > width

\* the local `lines` of _update_cache
WrapLines(t, width) ==
    IF WrapPath(t, width) THEN WordWrap(t, width) ELSE SplitNewline(t)

(***************************************************************************)
(* FontPreviewWidget._update_cache: drawing the lines and the font name    *)
(***************************************************************************)
\* f"{self.font_family} - {self.font_style}"
FontName(family, style) == family \o <<" ", "-", " ">> \o style

\* max(self.font_size - 4, 8)
SmallSize(size) == Max(size - 4, 8)

Ellipsis == <<".", ".", ".">>

\* the while loop that shortens the font name
RECURSIVE Shorten(_, _, _)
Shorten(name, available_width, size) ==
    IF HorizontalAdvance(name \o Ellipsis, size) > available_width /\ Len(name) > 3
    THEN Shorten(SubSeq(name, 1, Len(name) - 1), available_width, size)
    ELSE name

\* variant with the sign of the gap flipped
AvailableWidth_Plus(name_x, preview_text_end) == Max(0, name_x - preview_text_end + 20)

\* available_width = max(0, name_x - preview_text_end - 20)
AvailableWidth(name_x, preview_text_end) == Max(0, name_x - preview_text_end - 20)

\* the drawText calls that draw the font name beside line i (at most one)
LabelOps(i, line, y) ==
    LET name == FontName(font_family, font_style)
        small == SmallSize(font_size)
        name_width == HorizontalAdvance(name, small)
        name_x == rectW - name_width - 10
        preview_text_end == 10 + HorizontalAdvance(line, font_size)
        label_y == y - (Ascent(font_size) - Ascent(small))
    IN IF name_x > preview_text_end + 20
       THEN << [kind |-> "label", line |-> i, x |-> name_x, y |-> label_y, s |-> name] >>
       ELSE LET available_width == AvailableWidth(name_x, preview_text_end)
            IN IF available_width > 30
               THEN LET shortened_name == Shorten(name, available_width, small)
                    IN IF Len(shortened_name) < Len(name)
                       THEN << [kind |-> "label", line |-> i, x |-> preview_text_end + 20,
                                y |-> label_y, s |-> shortened_name \o Ellipsis] >>
                       ELSE << [kind |-> "label", line |-> i, x |-> preview_text_end + 20,
                                y |-> label_y, s |-> name] >>
               ELSE <<>>

\* `for i, line in enumerate(lines)`, python index i, with the break at the bottom edge
RECURSIVE DrawLoop(_, _, _, _)
DrawLoop(ls, i, y, ops) ==
    IF i >= Len(ls) THEN ops
    ELSE IF y - Ascent(font_size) + LineSpacing(font_size) > rectH THEN ops
    ELSE DrawLoop(ls, i + 1, y + LineSpacing(font_size),
                  ops \o << [kind |-> "text", line |-> i, x |-> 10, y |-> y, s |-> ls[i + 1]] >>
                      \o LabelOps(i, ls[i + 1], y))

\* the first baseline
StartY(ls) ==
    IF Len(ls) * LineSpacing(font_size) > rectH - 20
    THEN Ascent(font_size)
    ELSE 10 + Ascent(font_size)

\* the drawText calls of one render pass, in order
DrawOps(ls) == DrawLoop(ls, 0, StartY(ls), <<>>)

\* the field values and the size a render pass reads
Request ==
    [family |-> font_family, style |-> font_style, text |-> text, size |-> font_size,
     color |-> font_color, weight |-> font_weight, w |-> rectW, h |-> rectH]

\* no render pass has read anything yet
NoRequest ==
    [family |-> <<>>, style |-> <<>>, text |-> <<>>, size |-> 0,
     color |-> "", weight |-> 0, w |-> 0, h |-> 0]

\* _update_cache
UpdateCache ==
    LET ls == WrapLines(text, rectW - 20) IN
    /\ lines' = ls
    /\ cache_pixmap' = [null |-> FALSE, ops |-> DrawOps(ls)]
    /\ cache_request' = Request
    /\ renders' = renders + 1

\* variant of paintEvent that renders on every paint
paintEvent_AlwaysRender ==
    /\ paints < MaxPaints
    /\ UpdateCache
    /\ shown_request' = cache_request'
    /\ paints' = paints + 1
    /\ UNCHANGED <<loaderVars, windowVars, text, font_family, font_style, font_size,
                   font_color, font_weight, rectW, rectH, nlAdvance>>

\* paintEvent: render when there is no cached pixmap, then show the pixmap
paintEvent ==
    /\ paints < MaxPaints
    /\ IF cache_pixmap = None
       THEN UpdateCache
       ELSE UNCHANGED <<lines, cache_pixmap, cache_request, renders>>
    /\ shown_request' = cache_request'
    /\ paints' = paints + 1
    /\ UNCHANGED <<loaderVars, windowVars, text, font_family, font_style, font_size,
                   font_color, font_weight, rectW, rectH, nlAdvance>>

\* set_font_info(family, style, text)
set_font_info(family, style, t) ==
    /\ font_family' = family
    /\ font_style' = style
    /\ text' = t
    /\ cache_pixmap' = None

\* set_font_properties(size, color, weight)
set_font_properties(size, color, weight) ==
    /\ font_size' = size
    /\ font_color' = color
    /\ font_weight' = weight
    /\ cache_pixmap' = None

\* preview_widget = FontPreviewWidget(); set_font_info(...); set_font_properties(...);
\* preview_layout.addWidget(preview_widget): the new widget takes the place and
\* the size of the one it replaces
NewPreviewWidget(family, style, t, size, color, weight) ==
    /\ set_font_info(family, style, t)
    /\ set_font_properties(size, color, weight)
    /\ lines' = <<>>
    /\ cache_request' = NoRequest
    /\ shown_request' = NoRequest
    /\ paints' = 0
    /\ renders' = 0
    /\ UNCHANGED <<rectW, rectH, nlAdvance>>

\* the widget is given a new size; the class has no resizeEvent handler
resizeEvent ==
    /\ \E w \in RectWidths, h \in RectHeights :
           /\ <<w, h>> # <<rectW, rectH>>
           /\ rectW' = w
           /\ rectH' = h
    /\ paints' = 0
    /\ renders' = 0
    /\ UNCHANGED <<loaderVars, windowVars, text, font_family, font_style, font_size,
                   font_color, font_weight, nlAdvance, lines, cache_pixmap,
                   cache_request, shown_request>>

(***************************************************************************)
(* FontLoader.run: the events of the background enumeration                *)
(***************************************************************************)
\* QFontDatabase.families(): the name of the i-th family, all names distinct
FamilyName(i) == [k \in 1..i |-> "a"]

\* QFontDatabase.styles(family): the style lists a family can have
StyleLists == {<<>>, <<Regular>>, <<Bold, Regular>>, <<Black, Heavy>>,
               <<Regular, Bold, Italic, BoldItalic, Light>>}

\* an event of one of the signals font_loaded, progress and finished
Event(type, name, value, list) ==
    [type |-> type, name |-> name, value |-> value, fonts |-> list]

\* variant that computes the progress before completed is incremented
Progress_Before(done, total_operations) == ((done - 1) * 100) \div total_operations

\* int((completed / total_operations) * 100)
Progress(done, total_operations) == (done * 100) \div total_operations

\* the names f"{family} - {style}" of the useful styles of one family
VariantNames(family, useful) ==
    [i \in 1..Len(useful) |-> FontName(family, useful[i])]

\* one iteration of the loop over the families
run_family ==
    /\ ~run_done
    /\ completed < Len(families)
    /\ LET family == FamilyName(completed + 1)
           st == families[completed + 1]
           useful == FilterUseableStyles(st)
           names == VariantNames(family, useful)
       IN /\ styles' = st
          /\ useful_styles' = useful
          /\ filtered' = TRUE
          /\ loader_fonts' = loader_fonts \o names
          /\ completed' = completed + 1
          /\ events' = events
                 \o [i \in 1..Len(names) |-> Event("font_loaded", names[i], 0, <<>>)]
                 \o <<Event("progress", <<>>, Progress(completed + 1, Len(families)), <<>>)>>
    /\ UNCHANGED <<families, run_done, widgetVars, windowVars>>

\* the end of run: finished.emit(self.fonts)
run_finish ==
    /\ ~run_done
    /\ completed = Len(families)
    /\ events' = Append(events, Event("finished", <<>>, 0, loader_fonts))
    /\ run_done' = TRUE
    /\ UNCHANGED <<styles, useful_styles, filtered, families, completed, loader_fonts,
                   widgetVars, windowVars>>

\* FontLoader as __init__ leaves it
LoaderConstructed ==
    /\ completed = 0
    /\ loader_fonts = <<>>
    /\ events = <<>>
    /\ run_done = FALSE

(***************************************************************************)
(* MainWindow: controls, debounce timer and preview area                   *)
(***************************************************************************)
\* _debounced_update_previews(delay_ms=150), in timer ticks of 50 ms
DelayTicks == 3

Min(a, b) == IF a < b THEN a ELSE b

\* the members of QFont.Weight in the order of the list `weights`
Weights == <<100, 200, 300, 400, 500, 600, 700, 800, 900>>

\* _slider_value_to_weight: weights[min(int(value / 11.11), len(weights) - 1)]
SliderValueToWeight(value) ==
    Weights[Min((value * 100) \div 1111, Len(Weights) - 1) + 1]

\* name.split(" - ", 1) with the fallback of the except branch
SplitName(name) ==
    LET sep == <<" ", "-", " ">>
        at == {k \in 1..(Len(name) - 2) : SubSeq(name, k, k + 2) = sep}
    IN IF at = {} THEN [family |-> name, style |-> <<>>]
       ELSE LET k == CHOOSE i \in at : \A j \in at : i <= j
            IN [family |-> SubSeq(name, 1, k - 1), style |-> SubSeq(name, k + 3, Len(name))]

\* the list FontLoader hands to _on_load_finished
LoadedFonts == <<FontName(<<"a">>, <<"a">>), FontName(<<"b", "b", "b">>, <<"a">>)>>

SliderRange == 0..99
SliderStops == {38, 50}
PreviewModes == {"single", "multi", "selected"}

\* _debounced_update_previews: QTimer.start stops a running timer and starts it again
Debounce ==
    /\ timer_left' = DelayTicks
    /\ since_change' = 0
    /\ burst' = IF timer_left >= 0 THEN Min(burst + 1, MaxBurst) ELSE 1

\* the values every new preview widget is given
SetUp(name, t) ==
    NewPreviewWidget(SplitName(name).family, SplitName(name).style, t,
                     size_slider, current_color, SliderValueToWeight(weight_slider))

\* _find_font_index_in_original, python index
FindFontIndex(name) ==
    LET at == {i \in 1..Len(fonts) : fonts[i] = name}
    IN IF at = {} THEN 0 ELSE (CHOOSE i \in at : \A j \in at : i <= j) - 1

\* _update_font_preview(name, font) for the three preview modes
UpdateFontPreview(name, sel) ==
    IF preview_mode = "single"
    THEN SetUp(name, preview_text) /\ preview_count' = 1
    ELSE IF preview_mode = "multi"
    THEN LET current_index == FindFontIndex(FontName(SplitName(name).family, SplitName(name).style))
             start_index == Max(0, current_index - 5)
             end_index == Min(Len(fonts), current_index + 6)
         IN IF start_index < end_index
            THEN SetUp(fonts[start_index + 1], preview_text)
                 /\ preview_count' = end_index - start_index
            ELSE UNCHANGED widgetVars /\ preview_count' = 0
    ELSE IF Len(sel) > 0
         THEN SetUp(sel[1], preview_text) /\ preview_count' = Min(Len(sel), 20)
         ELSE UNCHANGED widgetVars /\ preview_count' = 0

\* the list [filtered_fonts[index] for the selected rows] of _update_selected_fonts
RECURSIVE SelectedOf(_, _, _)
SelectedOf(rows, sel, i) ==
    IF i > Len(rows) THEN <<>>
    ELSE (IF i \in sel THEN <<rows[i]>> ELSE <<>>) \o SelectedOf(rows, sel, i + 1)

\* _on_font_selection_changed, after font_list came to current row cur and selection sel
OnFontSelectionChanged(rows, cur, sel) ==
    IF preview_mode = "selected"
    THEN /\ selected_fonts' = SelectedOf(rows, sel, 1)
         /\ Debounce
         /\ UNCHANGED <<widgetVars, preview_count>>
    ELSE IF preview_mode = "single"
    THEN /\ IF cur = 0
            THEN UNCHANGED <<widgetVars, preview_count>>
            ELSE UpdateFontPreview(rows[cur], selected_fonts)
         /\ UNCHANGED <<selected_fonts, timer_left, since_change, burst>>
    ELSE /\ Debounce
         /\ UNCHANGED <<selected_fonts, widgetVars, preview_count>>

\* _on_load_finished(fonts): fills the list; setCurrentRow(0) makes row 0 current
\* and selects it, which emits itemSelectionChanged
on_load_finished ==
    /\ fonts = <<>>
    /\ fonts' = LoadedFonts
    /\ filtered_fonts' = LoadedFonts
    /\ current_row' = 1
    /\ selected_rows' = {1}
    /\ OnFontSelectionChanged(LoadedFonts, 1, {1})
    /\ UNCHANGED <<loaderVars, preview_mode, preview_text, size_slider, weight_slider,
                   current_color>>

\* _filter_fonts(text): the search text matches every font or none.  clear()
\* emits itemSelectionChanged when rows were selected, setCurrentRow(0) when
\* the new list has a row; the second run of the handler overrides the first
filter_fonts ==
    /\ fonts # <<>>
    /\ \E rows \in {fonts, <<>>} :
           LET cur == IF Len(rows) > 0 THEN 1 ELSE 0
               sel == IF Len(rows) > 0 THEN {1} ELSE {}
           IN /\ filtered_fonts' = rows
              /\ current_row' = cur
              /\ selected_rows' = sel
              /\ IF selected_rows # {} \/ Len(rows) > 0
                 THEN OnFontSelectionChanged(rows, cur, sel)
                 ELSE UNCHANGED <<widgetVars, selected_fonts, preview_count,
                                  timer_left, since_change, burst>>
    /\ UNCHANGED <<loaderVars, fonts, preview_mode, preview_text, size_slider,
                   weight_slider, current_color>>

\* the user clicks a row of font_list: it becomes current and its selection toggles
font_list_clicked ==
    /\ \E row \in 1..Len(filtered_fonts) :
           LET sel == IF row \in selected_rows THEN selected_rows \ {row}
                      ELSE selected_rows \cup {row} IN
           /\ current_row' = row
           /\ selected_rows' = sel
           /\ OnFontSelectionChanged(filtered_fonts, row, sel)
    /\ UNCHANGED <<loaderVars, fonts, filtered_fonts, preview_mode, preview_text,
                   size_slider, weight_slider, current_color>>

\* what the handlers of the property controls leave alone
ControlFrame ==
    UNCHANGED <<loaderVars, widgetVars, fonts, filtered_fonts, current_row,
                selected_rows, preview_count>>

\* _update_font_size(value)
update_font_size(value) ==
    /\ value # size_slider
    /\ size_slider' = value
    /\ Debounce
    /\ ControlFrame
    /\ UNCHANGED <<selected_fonts, preview_mode, preview_text, weight_slider, current_color>>

\* _update_font_weight(value)
update_font_weight(value) ==
    /\ value # weight_slider
    /\ weight_slider' = value
    /\ Debounce
    /\ ControlFrame
    /\ UNCHANGED <<selected_fonts, preview_mode, preview_text, size_slider, current_color>>

\* _select_color with a valid colour chosen in the dialog
select_color(color) ==
    /\ current_color' = color
    /\ Debounce
    /\ ControlFrame
    /\ UNCHANGED <<selected_fonts, preview_mode, preview_text, size_slider, weight_slider>>

\* _update_preview_text, after the text edit changed to t
update_preview_text(t) ==
    /\ t # preview_text
    /\ preview_text' = t
    /\ Debounce
    /\ ControlFrame
    /\ UNCHANGED <<selected_fonts, preview_mode, size_slider, weight_slider, current_color>>

\* _change_preview_mode(mode)
change_preview_mode(mode) ==
    /\ mode # preview_mode
    /\ preview_mode' = mode
    /\ selected_fonts' = IF mode = "selected"
                         THEN SelectedOf(filtered_fonts, selected_rows, 1)
                         ELSE selected_fonts
    /\ Debounce
    /\ ControlFrame
    /\ UNCHANGED <<preview_text, size_slider, weight_slider, current_color>>

\* 50 ms pass while the timer runs
Tick ==
    /\ timer_left > 0
    /\ timer_left' = timer_left - 1
    /\ since_change' = Min(since_change + 1, DelayTicks)
    /\ UNCHANGED <<loaderVars, widgetVars, fonts, filtered_fonts, current_row,
                   selected_rows, selected_fonts, preview_mode, preview_text,
                   size_slider, weight_slider, current_color, preview_count, burst>>

\* update_timer.timeout: _perform_preview_update and _refresh_previews
perform_preview_update ==
    /\ timer_left = 0
    /\ timer_left' = -1
    /\ IF current_row # 0 /\ current_row <= Len(filtered_fonts)
       THEN UpdateFontPreview(filtered_fonts[current_row], selected_fonts)
       ELSE UNCHANGED <<widgetVars, preview_count>>
    /\ UNCHANGED <<loaderVars, fonts, filtered_fonts, current_row, selected_rows,
                   selected_fonts, preview_mode, preview_text, size_slider,
                   weight_slider, current_color, since_change, burst>>

\* MainWindow as __init__ leaves it, the fonts still loading
WindowConstructed ==
    /\ fonts = <<>>
    /\ filtered_fonts = <<>>
    /\ current_row = 0
    /\ selected_rows = {}
    /\ selected_fonts = <<>>
    /\ preview_mode = "single"
    /\ preview_text = DefaultText
    /\ size_slider = 24
    /\ weight_slider = 50
    /\ current_color = "black"
    /\ timer_left = -1
    /\ preview_count = 0
    /\ since_change = 0
    /\ burst = 0

(***************************************************************************)
(* Specifications                                                          *)
(***************************************************************************)
\* the widget as __init__ leaves it
WidgetConstructed ==
    /\ text = DefaultText
    /\ font_family = <<>>
    /\ font_style = <<>>
    /\ font_size = 24
    /\ font_color = "black"
    /\ font_weight = 400
    /\ rectW = 200
    /\ rectH = 60
    /\ nlAdvance = 0
    /\ lines = <<>>
    /\ cache_pixmap = None
    /\ cache_request = NoRequest
    /\ shown_request = NoRequest
    /\ paints = 0
    /\ renders = 0

\* FontLoader.run about to filter the styles of one family
InitStyles ==
    /\ \E n \in 0..MaxStyles : styles \in DistinctSeqs(StyleNames, n)
    /\ useful_styles = <<>>
    /\ filtered = FALSE
    /\ families = <<>>
    /\ LoaderConstructed
    /\ WidgetConstructed
    /\ WindowConstructed

NextStyles == filter_useable_styles

SpecStyles == InitStyles /\ [][NextStyles]_vars

\* a preview widget that was given a font and a text and awaits its first paint
InitRender ==
    /\ styles = <<>>
    /\ useful_styles = <<>>
    /\ filtered = FALSE
    /\ families = <<>>
    /\ LoaderConstructed
    /\ text \in Texts
    /\ font_family \in FontFamilies
    /\ font_style \in FontStyleNames
    /\ font_size = 24
    /\ font_color = "black"
    /\ font_weight = 400
    /\ rectW \in RectWidths
    /\ rectH \in RectHeights
    /\ nlAdvance \in NlAdvances
    /\ lines = <<>>
    /\ cache_pixmap = None
    /\ cache_request = NoRequest
    /\ shown_request = NoRequest
    /\ paints = 0
    /\ renders = 0
    /\ WindowConstructed

NextRender == paintEvent

SpecRender == InitRender /\ [][NextRender]_vars

\* one preview widget of the preview area: MainWindow replaces it by a new
\* widget for new values, Qt resizes it and paints it
InitWidget ==
    /\ styles = <<>>
    /\ useful_styles = <<>>
    /\ filtered = FALSE
    /\ families = <<>>
    /\ LoaderConstructed
    /\ text \in WidgetTexts
    /\ font_family \in FontFamilies
    /\ font_style \in FontStyleNames
    /\ font_size \in FontSizes
    /\ font_color \in FontColors
    /\ font_weight \in FontWeights
    /\ rectW = 200
    /\ rectH = 60
    /\ nlAdvance = 0
    /\ lines = <<>>
    /\ cache_pixmap = None
    /\ cache_request = NoRequest
    /\ shown_request = NoRequest
    /\ paints = 0
    /\ renders = 0
    /\ WindowConstructed

\* _update_single_preview with the values MainWindow hands over
update_single_preview ==
    /\ \E family \in FontFamilies, style \in FontStyleNames, t \in WidgetTexts,
          size \in FontSizes, color \in FontColors, weight \in FontWeights :
           NewPreviewWidget(family, style, t, size, color, weight)
    /\ UNCHANGED <<loaderVars, windowVars>>

NextWidget == update_single_preview \/ resizeEvent \/ paintEvent

SpecWidget == InitWidget /\ [][NextWidget]_vars

\* the main window with its controls, its timer and its preview area
InitWindow ==
    /\ styles = <<>>
    /\ useful_styles = <<>>
    /\ filtered = FALSE
    /\ families = <<>>
    /\ LoaderConstructed
    /\ WidgetConstructed
    /\ WindowConstructed

NextWindow ==
    \/ on_load_finished
    \/ filter_fonts
    \/ font_list_clicked
    \/ \E value \in FontSizes : update_font_size(value)
    \/ \E value \in SliderStops : update_font_weight(value)
    \/ \E color \in FontColors : select_color(color)
    \/ \E t \in WidgetTexts : update_preview_text(t)
    \/ \E mode \in PreviewModes : change_preview_mode(mode)
    \/ Tick
    \/ perform_preview_update

SpecWindow == InitWindow /\ [][NextWindow]_vars

\* the main window with the weight slider moved over its whole range
NextSlider ==
    \/ on_load_finished
    \/ \E value \in SliderRange : update_font_weight(value)
    \/ Tick
    \/ perform_preview_update

SpecSlider == InitWindow /\ [][NextSlider]_vars

\* FontLoader.run over the families of the font database
InitLoader ==
    /\ styles = <<>>
    /\ useful_styles = <<>>
    /\ filtered = FALSE
    /\ \E n \in 0..MaxFamilies : families \in [1..n -> StyleLists]
    /\ LoaderConstructed
    /\ WidgetConstructed
    /\ WindowConstructed

NextLoader == run_family \/ run_finish

SpecLoader == InitLoader /\ [][NextLoader]_vars

(***************************************************************************)
(* Properties of _filter_useable_styles                                    *)
(***************************************************************************)
\* positions of the input whose name takes the branch of bucket b
InBucket(b) == {i \in 1..Len(styles) : Bucket(styles, i) = b}

\* positions of the input whose name is in the result
Kept == {i \in 1..Len(styles) : InSeq(styles[i], useful_styles)}

\* C1: each of the buckets Regular, BoldItalic, Bold and Italic contributes at
\* most one name to the result, and the name it contributes is the first
\* input name of that bucket; two names containing "regular" are never both
\* in the result.
C1_OneNamePerBucket ==
    filtered =>
        \A b \in NamedBuckets :
            /\ Cardinality(InBucket(b) \cap Kept) <= 1
            /\ \A i \in InBucket(b) \cap Kept : \A j \in InBucket(b) : i <= j

\* C2: the style filter returns at most 4 entries, whatever the input.
C2_AtMostFour == filtered => Len(useful_styles) <= 4

\* the slice at the end of the filter cut something off
C2_Witness == filtered /\ Len(FilterLoop(styles, 1, FilterStart).useful) > 4

C3Input == <<Regular, Bold, Italic, BoldItalic, Black>>

\* C3 as stated: the filter applied to Regular, Bold, Italic, Bold Italic,
\* Black returns Regular, Bold Italic, Bold, Italic (bucket-priority order).
C3_BucketOrder ==
    (filtered /\ styles = C3Input) => useful_styles = <<Regular, BoldItalic, Bold, Italic>>

\* C3 amended: the filter applied to Regular, Bold, Italic, Bold Italic, Black
\* returns Regular, Bold, Italic, Bold Italic, the order of the input.
C3_InputOrder ==
    (filtered /\ styles = C3Input) => useful_styles = <<Regular, Bold, Italic, BoldItalic>>

C3_Witness == filtered /\ styles = C3Input

\* no input name takes the branch of a named bucket
NoneRecognized == \A i \in 1..Len(styles) : Bucket(styles, i) = "Overflow"

\* C4 as stated: when no style name classifies as Regular, BoldItalic, Bold
\* or Italic, the filter returns the empty sequence.
C4_EmptyResult == (filtered /\ NoneRecognized) => useful_styles = <<>>

\* C4 amended: when no style name classifies as Regular, BoldItalic, Bold or
\* Italic, the filter returns the first four names of the input in input
\* order (all of them when there are at most four, none for the empty input).
C4_FirstFour == (filtered /\ NoneRecognized) => useful_styles = Take(styles, 4)

\* five unclassified names went in
C4_Witness == filtered /\ NoneRecognized /\ Len(styles) > 4

(***************************************************************************)
(* Properties of the line breaking in _update_cache                        *)
(***************************************************************************)
\* a render pass has run
Rendered == ~cache_pixmap.null

\* the width the text may take: rect.width() - 20
Width == rectW - 20

\* the render pass took the word-wrap branch
Wrapped == Rendered /\ HorizontalAdvance(text, font_size) > Width

\* the whitespace-delimited tokens of a sequence of strings, in order
RECURSIVE TokensOf(_)
TokensOf(ls) == IF ls = <<>> THEN <<>> ELSE Split(Head(ls)) \o TokensOf(Tail(ls))

\* for every token of a sequence of strings, the index of the string it is in
RECURSIVE OwnerOf(_, _)
OwnerOf(ls, k) ==
    IF k > Len(ls) THEN <<>>
    ELSE [n \in 1..Len(Split(ls[k])) |-> k] \o OwnerOf(ls, k + 1)

\* the text cut at its newline characters, written without str.split
RECURSIVE Joined(_)
Joined(ls) ==
    IF Len(ls) = 0 THEN <<>>
    ELSE IF Len(ls) = 1 THEN ls[1]
    ELSE ls[1] \o <<"\n">> \o Joined(Tail(ls))

CountOf(x, s) == Cardinality({k \in 1..Len(s) : s[k] = x})

\* C5: in the word-wrap branch every newline of the text is a hard break:
\* two tokens that a newline separates in the text are never on the same
\* output line.
C5_NewlineBreaks ==
    Wrapped =>
        LET seg == OwnerOf(SplitNewline(text), 1)
            row == OwnerOf(lines, 1)
        IN /\ Len(seg) = Len(row)
           /\ \A m, n \in 1..Len(seg) : seg[m] # seg[n] => row[m] # row[n]

\* C6: the tokens read off the output lines in order are exactly the tokens
\* of the text, and a token wider than the available width is the whole of
\* its line.
C6_TokensPreserved ==
    Rendered =>
        /\ TokensOf(lines) = Split(text)
        /\ \A k \in 1..Len(lines) :
               \A n \in 1..Len(Split(lines[k])) :
                   HorizontalAdvance(Split(lines[k])[n], font_size) > Width
                       => lines[k] = Split(lines[k])[n]

\* a wrapped text with a newline, one of its lines a token wider than the width
C6_Witness ==
    /\ Wrapped
    /\ Len(lines) >= 2
    /\ CountOf("\n", text) >= 1
    /\ \E k \in 1..Len(lines) : HorizontalAdvance(lines[k], font_size) > Width

\* C7: in the word-wrap branch no output line is wider than the available
\* width, except a line that is one token which is itself wider.
C7_LinesFit ==
    Wrapped =>
        \A k \in 1..Len(lines) :
            \/ HorizontalAdvance(lines[k], font_size) <= Width
            \/ \A n \in 1..Len(lines[k]) : ~IsSpace(lines[k][n])

\* a wrapped text with a line of two tokens that fills the width exactly
C7_Witness ==
    /\ Wrapped
    /\ \E k \in 1..Len(lines) :
           /\ Len(Split(lines[k])) >= 2
           /\ HorizontalAdvance(lines[k], font_size) = Width
    /\ Len(lines) >= 2

\* C8: a text not wider than the available width comes back as its
\* newline-separated segments: joining the lines with newlines gives the
\* text, and no line contains a newline.
C8_FastPath ==
    (Rendered /\ ~Wrapped) =>
        /\ Len(lines) >= 1
        /\ Joined(lines) = text
        /\ \A k \in 1..Len(lines) : CountOf("\n", lines[k]) = 0

\* a fitting text with an empty segment and a segment that starts with a space
C8_Witness ==
    /\ Rendered /\ ~Wrapped
    /\ \E k \in 1..Len(lines) : lines[k] = <<>>
    /\ \E k \in 1..Len(lines) : lines[k] # <<>> /\ lines[k][1] = " "
    /\ Len(lines) >= 3

(***************************************************************************)
(* Properties of the font-name label in _update_cache                      *)
(***************************************************************************)
\* the drawText calls of the cached pixmap
Ops == cache_pixmap.ops

TextOps == {k \in 1..Len(Ops) : Ops[k].kind = "text"}
LabelOpsOf(i) == {k \in 1..Len(Ops) : Ops[k].kind = "label" /\ Ops[k].line = i}
AllLabelOps == {k \in 1..Len(Ops) : Ops[k].kind = "label"}

\* C9: in one render pass with two or more drawn lines the font name is
\* drawn at most once, and beside line 0.
C9_LabelOnFirstLineOnly ==
    (Rendered /\ Cardinality(TextOps) >= 2) =>
        /\ Cardinality(AllLabelOps) <= 1
        /\ \A k \in AllLabelOps : Ops[k].line = 0

\* the quantities of the collision rule for a drawn line
LabelX == rectW - HorizontalAdvance(FontName(font_family, font_style), SmallSize(font_size)) - 10
LineEndX(k) == 10 + HorizontalAdvance(Ops[k].s, font_size)
ClaimedAvailable(k) == Max(0, LabelX - LineEndX(k) - 20)
Collides(k) == LabelX <= LineEndX(k) + 20

C11_NoStalePaint == paints >= 1 => shown_request = Request

Settled == timer_left = -1 /\ preview_count >= 1

\* C13: the weight the preview is given for the slider value is Thin (100)
\* for 0, Black (900) for 99 and Normal (400) for 50, and no smaller value
\* of the slider gives a heavier weight.
C13_SliderBuckets ==
    Settled =>
        /\ font_weight = SliderValueToWeight(weight_slider)
        /\ weight_slider = 0 => font_weight = 100
        /\ weight_slider = 99 => font_weight = 900
        /\ weight_slider = 50 => font_weight = 400
        /\ \A v \in 0..weight_slider : SliderValueToWeight(v) <= font_weight

\* a step that changes the size, the weight, the colour, the text or the mode
Change ==
    \/ size_slider' # size_slider
    \/ weight_slider' # weight_slider
    \/ current_color' # current_color
    \/ preview_text' # preview_text
    \/ preview_mode' # preview_mode

\* a step in which the timer fires and _perform_preview_update runs
Pass == timer_left = 0 /\ timer_left' = -1

\* font_list has a current item
HasCurrent == current_row # 0

\* the number of previews the mode asks for
ExpectedCount ==
    IF preview_mode = "single" THEN 1
    ELSE IF preview_mode = "multi"
    THEN Cardinality({i \in 1..Len(fonts) :
             \E c \in 1..Len(fonts) :
                 /\ fonts[c] = filtered_fonts[current_row]
                 /\ i >= c - 5 /\ i <= c + 5})
    ELSE Min(Len(selected_fonts), 20)

\* the previews on display are those of the mode and show the state of the controls
ShowsControls ==
    /\ HasCurrent => preview_count = ExpectedCount
    /\ preview_count >= 1 =>
           /\ text = preview_text
           /\ font_size = size_slider
           /\ font_color = current_color
           /\ font_weight = SliderValueToWeight(weight_slider)
           /\ cache_pixmap = None

\* the timer is restarted by every change, runs only after a change, and
\* fires once, a full delay after the last change
TimerRule ==
    /\ Change => timer_left' = DelayTicks /\ since_change' = 0
    /\ timer_left' > timer_left => since_change' = 0 /\ timer_left' = DelayTicks
    /\ Pass => since_change = DelayTicks /\ burst >= 1

\* C14: every size, weight, colour, text or mode change restarts the 150 ms
\* timer; the refresh pass runs only when the timer has run a full delay
\* since the last change, once, and after it the previews on display show
\* the state of the controls that the last change left.
C14_TrailingDebounce ==
    [][TimerRule /\ (Pass => ShowsControls')]_vars

(***************************************************************************)
(* Properties of the events of FontLoader.run                              *)
(***************************************************************************)
\* the positions of the events of one signal
EventsOf(type) == {k \in 1..Len(events) : events[k].type = type}

\* the names carried by the font_loaded events, in the order of emission
RECURSIVE VariantsFrom(_)
VariantsFrom(k) ==
    IF k > Len(events) THEN <<>>
    ELSE (IF events[k].type = "font_loaded" THEN <<events[k].name>> ELSE <<>>)
         \o VariantsFrom(k + 1)

\* the accepted (family, style) pairs of the first n families, family by family
RECURSIVE Accepted(_)
Accepted(n) ==
    IF n = 0 THEN <<>>
    ELSE Accepted(n - 1) \o VariantNames(FamilyName(n), FilterUseableStyles(families[n]))

\* C15: the font_loaded events are the accepted (family, style) pairs of the
\* families processed, one event each; the n-th progress event comes right
\* after the variant events of the n-th family, the progress values never
\* decrease and the one after the last family is 100; there is at most one
\* finished event, exactly one when run has returned, it is the last event,
\* and its list is the sequence of the font_loaded events before it.
C15_LoaderEvents ==
    /\ VariantsFrom(1) = Accepted(completed)
    /\ Cardinality(EventsOf("progress")) = completed
    /\ \A k \in EventsOf("progress") :
           LET n == Cardinality({j \in EventsOf("progress") : j <= k})
           IN /\ k = n + Len(Accepted(n))
              /\ events[k].value = Progress(n, Len(families))
              /\ n = Len(families) => events[k].value = 100
    /\ \A j, k \in EventsOf("progress") : j <= k => events[j].value <= events[k].value
    /\ Cardinality(EventsOf("finished")) = (IF run_done THEN 1 ELSE 0)
    /\ \A k \in EventsOf("finished") :
           /\ k = Len(events)
           /\ completed = Len(families)
           /\ events[k].fonts = VariantsFrom(1)

\* run has returned after three or more families, one of them without an
\* accepted style, with more variants than families
C15_Witness ==
    /\ run_done
    /\ Len(families) >= 3
    /\ \E n \in 1..Len(families) : FilterUseableStyles(families[n]) = <<>>
    /\ Cardinality(EventsOf("font_loaded")) > Len(families)
    /\ events[Len(events)].type = "finished"
    /\ Len(events[Len(events)].fonts) > Len(families)

====
